---- MODULE Spec2Model ----
(***************************************************************************)
(* A model of src/admin/search.ts: the admin search dictionary.            *)
(*                                                                         *)
(* Strings are sequences of one-character strings, so that the regular     *)
(* expressions of the source are modelled by what they match.              *)
(***************************************************************************)
EXTENDS Integers, Sequences, FiniteSets, TLC

VARIABLES
    cache,          \* const cache: DictCache, language -> array of entries
    fallbackCache,  \* const fallbackCache: FallbackCache, namespace -> entry
    calls,          \* the getDictionary calls and their per-namespace builds
    pathSep,        \* path.sep of the platform
    directories,    \* the argument of a direct filterDirectories call
    filtered,       \* what that call returned, in a one-element sequence
    text,           \* the argument of a direct simplify call
    simplified,     \* what simplify returned, applied once and then again
    args,           \* the inputs of one entry: language, namespace, table, template
    returned        \* the entries built from them, in a sequence

vars == <<cache, fallbackCache, calls, pathSep, directories, filtered, text, simplified,
          args, returned>>

(***************************************************************************)
(* Bounds of the model.                                                    *)
(***************************************************************************)
\* longest text handed to simplify (besides the documented example)
MaxLen == 4
\* longest directory listing handed to filterDirectories (besides the example)
MaxDirs == 2
\* number of getDictionary calls in one execution
MaxCalls == 2
\* number of namespace builds the calls of one execution start, all together
MaxBuilds == 2

(***************************************************************************)
(* String helpers.                                                         *)
(***************************************************************************)
EndsWith(s, suffix) ==
    /\ Len(suffix) <= Len(s)
    /\ SubSeq(s, Len(s) - Len(suffix) + 1, Len(s)) = suffix

Includes(s, part) ==
    \E i \in 1..(Len(s) - Len(part) + 1) : SubSeq(s, i, i + Len(part) - 1) = part

RECURSIVE ReplaceAll(_, _, _)
\* s.split(from).join(to) for a one-character separator
ReplaceAll(s, from, to) ==
    IF s = <<>> THEN <<>>
    ELSE <<(IF Head(s) = from THEN to ELSE Head(s))>> \o ReplaceAll(Tail(s), from, to)

RECURSIVE Join(_, _)
\* parts.join(glue)
Join(parts, glue) ==
    IF parts = <<>> THEN <<>>
    ELSE IF Len(parts) = 1 THEN parts[1]
    ELSE parts[1] \o glue \o Join(Tail(parts), glue)

RECURSIVE Split(_, _)
\* s.split(c) for a one-character separator: always at least one part
Split(s, c) ==
    IF \A i \in 1..Len(s) : s[i] # c THEN <<s>>
    ELSE LET i == CHOOSE k \in 1..Len(s) : s[k] = c /\ \A j \in 1..(k - 1) : s[j] # c
         IN  <<SubSeq(s, 1, i - 1)>> \o Split(SubSeq(s, i + 1, Len(s)), c)

LowerCase == <<"a", "b", "c", "d", "e", "f", "g", "h", "i", "j", "k", "l", "m",
               "n", "o", "p", "q", "r", "s", "t", "u", "v", "w", "x", "y", "z">>
UpperCase == <<"A", "B", "C", "D", "E", "F", "G", "H", "I", "J", "K", "L", "M",
               "N", "O", "P", "Q", "R", "S", "T", "U", "V", "W", "X", "Y", "Z">>

IsLetter(c) == \E i \in 1..26 : c = LowerCase[i] \/ c = UpperCase[i]

\* c.toUpperCase() on one character
ToUpperCase(c) ==
    IF \E i \in 1..26 : c = LowerCase[i]
    THEN UpperCase[CHOOSE i \in 1..26 : c = LowerCase[i]]
    ELSE c

(***************************************************************************)
(* filterDirectories                                                       *)
(***************************************************************************)
AdminStr == <<"a", "d", "m", "i", "n">>
TplStr == <<"t", "p", "l">>
JsSuffix == <<".", "j", "s">>
PartialsStr == <<"/", "p", "a", "r", "t", "i", "a", "l", "s", "/">>
ManageCategory == <<"m", "a", "n", "a", "g", "e", "/", "c", "a", "t", "e", "g", "o", "r", "y">>
ManageGroup == <<"m", "a", "n", "a", "g", "e", "/", "g", "r", "o", "u", "p">>
ManageCategoryAnalytics == ManageCategory \o <<"-", "a", "n", "a", "l", "y", "t", "i", "c", "s">>

\* The start positions at which /^.*(admin.*?).tpl$/ can place its group: the
\* text "admin", then anything (lazily), then one arbitrary character and "tpl"
\* at the end of the string.
AdminStarts(dir) ==
    IF EndsWith(dir, TplStr)
    THEN {i \in 1..(Len(dir) - 8) : SubSeq(dir, i, i + 4) = AdminStr}
    ELSE {}

\* as AdminStart, had the leading .* been lazy: the first start
AdminStartFirst(dir) == CHOOSE i \in AdminStarts(dir) : \A j \in AdminStarts(dir) : i <= j

\* The start the expression takes: its leading .* is greedy, so the last one.
AdminStart(dir) == CHOOSE i \in AdminStarts(dir) : \A j \in AdminStarts(dir) : j <= i

\* dir.replace(/^.*(admin.*?).tpl$/, '$1'): the group when the expression
\* matches, the string unchanged when it does not.
RelativePath(dir) ==
    IF AdminStarts(dir) = {} THEN dir
    ELSE SubSeq(dir, AdminStart(dir), Len(dir) - 4)

\* the predicate of the .filter(...) call
KeepDirectory(dir) ==
    /\ ~EndsWith(dir, JsSuffix)
    /\ ~Includes(dir, PartialsStr)
    /\ \E i, j \in 1..Len(dir) : i < j /\ dir[i] = "/" /\ dir[j] = "/"
    /\ ~(\/ EndsWith(dir, ManageCategory)
         \/ EndsWith(dir, ManageGroup)
         \/ EndsWith(dir, ManageCategoryAnalytics))

RECURSIVE MapFilter(_, _)
\* directories.map(...).filter(...), with path.sep given
MapFilter(dirs, sep) ==
    IF dirs = <<>> THEN <<>>
    ELSE LET dir == ReplaceAll(RelativePath(Head(dirs)), sep, "/")
         IN  (IF KeepDirectory(dir) THEN <<dir>> ELSE <<>>) \o MapFilter(Tail(dirs), sep)

filterDirectories(dirs, sep) == MapFilter(dirs, sep)

(***************************************************************************)
(* simplify                                                                *)
(***************************************************************************)
IsHorizontal(c) == c = " " \/ c = "\t"
IsLineBreak(c) == c = "\n" \/ c = "\r"
IsWhitespace(c) == IsHorizontal(c) \/ IsLineBreak(c)

\* the length of the longest prefix of s whose characters all satisfy the test
RECURSIVE WhitespaceRun(_)
WhitespaceRun(s) ==
    IF s # <<>> /\ IsWhitespace(Head(s)) THEN 1 + WhitespaceRun(Tail(s)) ELSE 0

RECURSIVE HorizontalRun(_)
HorizontalRun(s) ==
    IF s # <<>> /\ IsHorizontal(Head(s)) THEN 1 + HorizontalRun(Tail(s)) ELSE 0

\* The end of the match of /\{{1,2}[^}]*?\}{1,2}/ at the head of s, 0 when it
\* does not match there: from "{" to the first "}" after it, and one more "}"
\* when it follows at once.
MustacheEnd(s) ==
    IF s # <<>> /\ Head(s) = "{" /\ \E j \in 2..Len(s) : s[j] = "}"
    THEN LET j == CHOOSE k \in 2..Len(s) : s[k] = "}" /\ \A m \in 2..(k - 1) : s[m] # "}"
         IN  IF j < Len(s) /\ s[j + 1] = "}" THEN j + 1 ELSE j
    ELSE 0

RECURSIVE RemoveMustaches(_)
\* .replace(/(?:\{{1,2}[^}]*?\}{1,2})/g, '')
RemoveMustaches(s) ==
    IF s = <<>> THEN <<>>
    ELSE IF MustacheEnd(s) > 0
         THEN RemoveMustaches(SubSeq(s, MustacheEnd(s) + 1, Len(s)))
         ELSE <<Head(s)>> \o RemoveMustaches(Tail(s))

RECURSIVE CollapseLineBreaks(_)
\* .replace(/(?:[ \t]*[\n\r]+[ \t]*)+/g, '\n'): a maximal run of whitespace
\* that holds a line break becomes one "\n"; a run without one is kept.
CollapseLineBreaks(s) ==
    IF s = <<>> THEN <<>>
    ELSE LET n == WhitespaceRun(s)
         IN  IF n = 0 THEN <<Head(s)>> \o CollapseLineBreaks(Tail(s))
             ELSE (IF \E i \in 1..n : IsLineBreak(s[i]) THEN <<"\n">> ELSE SubSeq(s, 1, n))
                  \o CollapseLineBreaks(SubSeq(s, n + 1, Len(s)))

RECURSIVE CollapseSpaces(_)
\* .replace(/[\t ]+/g, ' ')
CollapseSpaces(s) ==
    IF s = <<>> THEN <<>>
    ELSE LET n == HorizontalRun(s)
         IN  IF n = 0 THEN <<Head(s)>> \o CollapseSpaces(Tail(s))
             ELSE <<" ">> \o CollapseSpaces(SubSeq(s, n + 1, Len(s)))

\* as simplify, without its last replace
simplifyKeepingSpaces(translations) == CollapseLineBreaks(RemoveMustaches(translations))

\* as simplify, with the mustaches removed last
simplifyMustachesLast(translations) ==
    RemoveMustaches(CollapseSpaces(CollapseLineBreaks(translations)))

simplify(translations) == CollapseSpaces(CollapseLineBreaks(RemoveMustaches(translations)))

(***************************************************************************)
(* sanitize, nsToTitle and the title key                                   *)
(***************************************************************************)
RECURSIVE StripSpans(_, _, _)
\* s without its spans from the two characters open to the two characters
\* close (one character each when the second is ""); an unclosed span is kept
StripSpans(s, open, close) ==
    IF s = <<>> THEN <<>>
    ELSE IF /\ Len(s) >= Len(open) /\ SubSeq(s, 1, Len(open)) = open
            /\ \E j \in (Len(open) + 1)..(Len(s) - Len(close) + 1) :
                   SubSeq(s, j, j + Len(close) - 1) = close
         THEN LET j == CHOOSE k \in (Len(open) + 1)..(Len(s) - Len(close) + 1) :
                          /\ SubSeq(s, k, k + Len(close) - 1) = close
                          /\ \A m \in (Len(open) + 1)..(k - 1) :
                                 SubSeq(s, m, m + Len(close) - 1) # close
              IN  StripSpans(SubSeq(s, j + Len(close), Len(s)), open, close)
         ELSE <<Head(s)>> \o StripSpans(Tail(s), open, close)

\* sanitizeHTML(html, { allowedTags: [], allowedAttributes: [] }): every tag
\* is removed and the text between the tags is kept
sanitize(html) == StripSpans(html, <<"<">>, <<">">>)

\* Translator.removePatterns(text): the [[...]] patterns are removed
removePatterns(str) == StripSpans(str, <<"[", "[">>, <<"]", "]">>)

AdminSlash == AdminStr \o <<"/">>

\* namespace.replace('admin/', ''): the first occurrence only
DropAdminPrefix(namespace) ==
    IF Includes(namespace, AdminSlash)
    THEN LET i == CHOOSE k \in 1..Len(namespace) :
                      /\ k + 5 <= Len(namespace)
                      /\ SubSeq(namespace, k, k + 5) = AdminSlash
                      /\ \A j \in 1..(k - 1) : SubSeq(namespace, j, j + 5) # AdminSlash
         IN  SubSeq(namespace, 1, i - 1) \o SubSeq(namespace, i + 6, Len(namespace))
    ELSE namespace

\* str[0].toUpperCase() + str.slice(1), for the non-empty segments of a namespace
Capitalize(str) == <<ToUpperCase(Head(str))>> \o Tail(str)

\* as BlankNonTitle, had the characters been replaced by nothing
RemoveNonTitle(s) ==
    SelectSeq(s, LAMBDA c : IsLetter(c) \/ c = ">" \/ c = " ")

\* .replace(/[^a-zA-Z> ]/g, ' ')
BlankNonTitle(s) ==
    [i \in 1..Len(s) |-> IF IsLetter(s[i]) \/ s[i] = ">" \/ s[i] = " " THEN s[i] ELSE " "]

nsToTitle(namespace) ==
    LET parts == Split(DropAdminPrefix(namespace), "/")
    IN  BlankNonTitle(Join([i \in 1..Len(parts) |-> Capitalize(parts[i])], <<" ", ">", " ">>))

DevelopmentStr == <<"d", "e", "v", "e", "l", "o", "p", "m", "e", "n", "t">>
AdvancedStr == <<"a", "d", "v", "a", "n", "c", "e", "d">>
MenuSectionOpen == <<"[", "[">> \o AdminSlash \o <<"m", "e", "n", "u", ":", "s", "e", "c", "t", "i", "o", "n", "-">>
MenuOpen == <<"[", "[">> \o AdminSlash \o <<"m", "e", "n", "u", ":">>
PatternClose == <<"]", "]">>

\* The matches of /admin\/(.+?)\/(.+?)$/ as <<i, k>>: "admin/" at i, the "/"
\* that ends the first group at k, a non-empty first and second group.
TitleMatches(namespace) ==
    {m \in (1..Len(namespace)) \X (1..Len(namespace)) :
        /\ m[1] + 5 <= Len(namespace)
        /\ SubSeq(namespace, m[1], m[1] + 5) = AdminSlash
        /\ m[2] > m[1] + 6
        /\ m[2] < Len(namespace)
        /\ namespace[m[2]] = "/"}

\* as TitleKey, had the remapped section been used in the page reference too
TitleKeyRemappedTwice(namespace) ==
    IF TitleMatches(namespace) = {} THEN <<>>
    ELSE LET i == CHOOSE a \in 1..Len(namespace) :
                      /\ \E m \in TitleMatches(namespace) : m[1] = a
                      /\ \A m \in TitleMatches(namespace) : a <= m[1]
             k == CHOOSE b \in 1..Len(namespace) :
                      /\ <<i, b>> \in TitleMatches(namespace)
                      /\ \A m \in TitleMatches(namespace) : m[1] = i => b <= m[2]
             found == SubSeq(namespace, i + 6, k - 1)
             section == IF found = DevelopmentStr THEN AdvancedStr ELSE found
             page == SubSeq(namespace, k + 1, Len(namespace))
         IN  MenuSectionOpen \o section \o PatternClose
             \o <<" ", ">", " ">> \o MenuOpen \o section \o <<"/">> \o page \o PatternClose

\* the title key of buildNamespace: '' when the namespace does not match
TitleKey(namespace) ==
    IF TitleMatches(namespace) = {} THEN <<>>
    ELSE LET i == CHOOSE a \in 1..Len(namespace) :
                      /\ \E m \in TitleMatches(namespace) : m[1] = a
                      /\ \A m \in TitleMatches(namespace) : a <= m[1]
             k == CHOOSE b \in 1..Len(namespace) :
                      /\ <<i, b>> \in TitleMatches(namespace)
                      /\ \A m \in TitleMatches(namespace) : m[1] = i => b <= m[2]
             section == SubSeq(namespace, i + 6, k - 1)
             page == SubSeq(namespace, k + 1, Len(namespace))
         IN  MenuSectionOpen
             \o (IF section = DevelopmentStr THEN AdvancedStr ELSE section)
             \o PatternClose
             \o (IF page # <<>>
                 THEN <<" ", ">", " ">> \o MenuOpen \o section \o <<"/">> \o page \o PatternClose
                 ELSE <<>>)

\* translator.translate(title) of the translator of a language: the display
\* text the patterns of the title resolve to in that language
translate(language, title) == <<language>> \o removePatterns(title)

(***************************************************************************)
(* The entries                                                             *)
(***************************************************************************)
NewLine == <<"\n">>

\* what initFallback returns for a template that was read
initFallback(namespace, template) ==
    [namespace |-> namespace,
     translations |-> simplify(removePatterns(sanitize(template))) \o NewLine \o nsToTitle(namespace),
     title |-> nsToTitle(namespace)]

\* let str = Object.values(translations).join('\n'); str = sanitize(str)
JoinedTranslations(values) == sanitize(Join(values, NewLine))

\* what buildNamespace returns from its try block
TranslatedEntry(namespace, str, title, translatedTitle) ==
    [namespace |-> namespace,
     translations |-> str \o NewLine \o title,
     title |-> translatedTitle]

\* what buildNamespace returns from its catch block: no title
CaughtEntry(namespace) ==
    [namespace |-> namespace, translations |-> <<>>]

(***************************************************************************)
(* The environment: what the collaborators of the module can answer.       *)
(***************************************************************************)
Languages == {"en-GB", "de"}

\* the files of a views directory /v: the pages admin/a/b and admin/c/d, the
\* script beside a template, and a top-level page
ViewsAdmin == <<"/", "v", "/">> \o AdminSlash
DotTpl == <<".">> \o TplStr
PageABTpl == ViewsAdmin \o <<"a", "/", "b">> \o DotTpl
PageABJs == ViewsAdmin \o <<"a", "/", "b">> \o JsSuffix
PageCDTpl == ViewsAdmin \o <<"c", "/", "d">> \o DotTpl
TopLevelTpl == ViewsAdmin \o <<"g">> \o DotTpl

\* what file.walk(<views_dir>/admin) can resolve to: two pages, one, none
Listings == {<<PageABTpl, PageABJs, PageCDTpl>>, <<TopLevelTpl, PageCDTpl>>, <<TopLevelTpl>>}

\* a translation table is given by its values, in table order
AbsentTable == [type |-> "absent", values |-> <<>>]
EmptyTable == [type |-> "table", values |-> <<>>]
SomeTable == [type |-> "table", values |-> << <<"<", "b", ">", "C">>, <<"D">> >>]
NoTable == [type |-> "none", values |-> <<>>]

\* what translator.getTranslation(namespace) can resolve to
Tables == {AbsentTable, EmptyTable, SomeTable}

\* what fs.promises.readFile(<views_dir>/<namespace>.tpl) can resolve to
Templates == {<<"<", "i", ">", "A", " ", "{", "x", "}", "\n", "[", "[", "k", "]", "]">>,
              <<"B">>}

(***************************************************************************)
(* The caches and the calls                                                *)
(***************************************************************************)
CallIds == 1..MaxCalls

\* as Cached, had the test been left out
CachedNever(dict, key) == FALSE

\* if (cache[language]) and if (fallbackCache[namespace]): an array and an
\* entry are truthy, so the test is whether the key is there
Cached(dict, key) == key \in DOMAIN dict

\* as Store, had the cache been replaced by one that holds the new key only
StoreAlone(dict, key, params) == [k \in {key} |-> params]

\* as Store, had the assignment written every key of the cache
StoreUnderAllKeys(dict, key, params) == [k \in DOMAIN dict \cup {key} |-> params]

\* cache[language] = params and fallbackCache[namespace] = params
Store(dict, key, params) ==
    [k \in DOMAIN dict \cup {key} |-> IF k = key THEN params ELSE dict[k]]

\* !translations || !Object.keys(translations).length
IsEmptyTable(translations) ==
    translations.type = "absent" \/ Len(translations.values) = 0

NoEntry == [pending |-> TRUE]

IdleCall == [pc |-> "idle", language |-> "", walked |-> FALSE,
             namespaces |-> <<>>, builds |-> <<>>, settled |-> <<>>, result |-> <<>>]

\* A build is one buildNamespace(language, namespace) call: where it stands
\* (pc), its local translations while it awaits translate, the branch it took
\* (branch, read: whether it called readFile) and what it returned (entry).
\* buildNamespace up to its first await: translator.getTranslation is called.
StartBuild ==
    [pc |-> "getTranslation", table |-> NoTable, branch |-> "lookup",
     read |-> FALSE, entry |-> NoEntry]

\* as Caught, had the catch block thrown the error again
CaughtRethrown(build, namespace) ==
    [build EXCEPT !.pc = "rejected", !.table = NoTable]

\* as Caught, had the catch block gone on to the fallback of the namespace
CaughtFallsBack(build, namespace) ==
    IF Cached(fallbackCache, namespace)
    THEN [build EXCEPT !.pc = "fulfilled", !.table = NoTable,
                       !.entry = fallbackCache[namespace]]
    ELSE [build EXCEPT !.pc = "readFile", !.table = NoTable, !.read = TRUE]

\* the catch block of buildNamespace: the build resolves with an entry
\* without translations and without title
Caught(build, namespace) ==
    [build EXCEPT !.pc = "fulfilled", !.table = NoTable, !.entry = CaughtEntry(namespace)]

Settled(build) == build.pc \in {"fulfilled", "rejected"}

Init ==
    /\ cache = <<>>
    /\ fallbackCache = <<>>
    /\ calls = [c \in CallIds |-> IdleCall]
    /\ pathSep = "/"
    /\ directories = <<>>
    /\ filtered = <<>>
    /\ text = <<>>
    /\ simplified = <<>>
    /\ args = <<>>
    /\ returned = <<>>

Pure == <<pathSep, directories, filtered, text, simplified, args, returned>>

\* getDictionary(language) up to its first await
GetDictionary(c, language) ==
    /\ calls[c].pc = "idle"
    /\ \A d \in CallIds : d < c => calls[d].pc # "idle"
    /\ IF Cached(cache, language)
       THEN calls' = [calls EXCEPT ![c] = [@ EXCEPT !.pc = "fulfilled",
                                                    !.language = language,
                                                    !.result = cache[language]]]
       ELSE calls' = [calls EXCEPT ![c] = [@ EXCEPT !.pc = "walk",
                                                    !.language = language,
                                                    !.walked = TRUE]]
    /\ UNCHANGED <<cache, fallbackCache, Pure>>

\* as Params, had the array held the entries in the order the builds settled
ParamsInSettleOrder(call) ==
    [k \in 1..Len(call.settled) |-> call.builds[call.settled[k]].entry]

\* the array of a call whose builds are all fulfilled
Params(call) == [i \in 1..Len(call.builds) |-> call.builds[i].entry]

\* The builds of the call in the order they settled (settled): the build the
\* event at hand has settled is put after the ones that settled before it.
Recorded(call) ==
    LET new == {i \in 1..Len(call.builds) :
                   /\ Settled(call.builds[i])
                   /\ \A k \in 1..Len(call.settled) : call.settled[k] # i}
    IN  IF new = {} THEN call
        ELSE [call EXCEPT !.settled = @ \o <<CHOOSE i \in new : TRUE>>]

\* as AwaitAll, had initDict resolved with the array as soon as one build had
\* fulfilled
AwaitAny(call) ==
    IF call.pc # "all" THEN call
    ELSE IF \E i \in 1..Len(call.builds) : call.builds[i].pc = "fulfilled"
    THEN [Recorded(call) EXCEPT !.pc = "fulfilled", !.result = Params(Recorded(call))]
    ELSE Recorded(call)

\* as AwaitAll, had the call not been resumed once its builds had settled
AwaitStuck(call) == Recorded(call)

\* await Promise.all(...) in initDict and await initDict(language) in
\* getDictionary, for a call that awaits its builds: rejected as soon as one
\* build has rejected, fulfilled with the array once all are fulfilled, and
\* still waiting otherwise. The continuations run as microtasks of the event
\* that settled the last build, before any other I/O event is handled.
AwaitAll(call) ==
    IF call.pc # "all" THEN call
    ELSE IF \E i \in 1..Len(call.builds) : call.builds[i].pc = "rejected"
    THEN [Recorded(call) EXCEPT !.pc = "rejected"]
    ELSE IF \A i \in 1..Len(call.builds) : call.builds[i].pc = "fulfilled"
    THEN [Recorded(call) EXCEPT !.pc = "fulfilled", !.result = Params(Recorded(call))]
    ELSE Recorded(call)

\* as Continue, had getDictionary kept an array that is already cached
ContinueFirstWriteWins(c, call) ==
    LET after == AwaitAll(call)
    IN  /\ calls' = [calls EXCEPT ![c] = after]
        /\ cache' = IF /\ calls[c].pc # "fulfilled"
                       /\ after.pc = "fulfilled"
                       /\ after.language \notin DOMAIN cache
                    THEN Store(cache, after.language, after.result)
                    ELSE cache

\* The event that changed call c into the call given, and what follows it in
\* getDictionary: cache[language] = params when the call is fulfilled by it.
Continue(c, call) ==
    LET after == AwaitAll(call)
    IN  /\ calls' = [calls EXCEPT ![c] = after]
        /\ cache' = IF calls[c].pc # "fulfilled" /\ after.pc = "fulfilled"
                    THEN Store(cache, after.language, after.result)
                    ELSE cache

\* the builds started so far
BuildsStarted == [c \in CallIds |-> Len(calls[c].builds)]

RECURSIVE Sum(_, _)
Sum(f, n) == IF n = 0 THEN 0 ELSE f[n] + Sum(f, n - 1)

\* file.walk resolves: getAdminNamespaces filters the listing and initDict
\* starts one build per namespace, all before it awaits Promise.all
WalkResolves(c, listing) ==
    /\ calls[c].pc = "walk"
    /\ LET namespaces == filterDirectories(listing, pathSep)
       IN  /\ Sum(BuildsStarted, MaxCalls) + Len(namespaces) <= MaxBuilds
           /\ Continue(c, [calls[c] EXCEPT
                              !.pc = "all",
                              !.namespaces = namespaces,
                              !.builds = [i \in 1..Len(namespaces) |-> StartBuild]])
    /\ UNCHANGED <<fallbackCache, Pure>>

\* as WalkRejects, had getDictionary cached an empty array for the language
WalkRejectsCached(c) ==
    /\ calls[c].pc = "walk"
    /\ calls' = [calls EXCEPT ![c].pc = "rejected"]
    /\ cache' = Store(cache, calls[c].language, <<>>)
    /\ UNCHANGED <<fallbackCache, Pure>>

\* file.walk rejects: initDict and getDictionary reject with it
WalkRejects(c) ==
    /\ calls[c].pc = "walk"
    /\ calls' = [calls EXCEPT ![c].pc = "rejected"]
    /\ UNCHANGED <<cache, fallbackCache, Pure>>

\* as Fallback, had it not looked into the fallback cache
FallbackAlwaysReads(build, namespace) ==
    [build EXCEPT !.pc = "readFile", !.branch = "fallback", !.read = TRUE]

\* fallback(namespace) up to its first await, for the build that called it
Fallback(build, namespace) ==
    IF Cached(fallbackCache, namespace)
    THEN [build EXCEPT !.pc = "fulfilled", !.branch = "fallback",
                       !.entry = fallbackCache[namespace]]
    ELSE [build EXCEPT !.pc = "readFile", !.branch = "fallback", !.read = TRUE]

\* translator.getTranslation resolves: an absent or empty table goes to the
\* fallback, any other table to translator.translate(title)
GetTranslationResolves(c, i, translations) ==
    /\ i \in 1..Len(calls[c].builds)
    /\ calls[c].builds[i].pc = "getTranslation"
    /\ Continue(c, [calls[c] EXCEPT !.builds[i] =
                       IF IsEmptyTable(translations)
                       THEN Fallback(@, calls[c].namespaces[i])
                       ELSE [@ EXCEPT !.pc = "translate", !.branch = "table",
                                      !.table = translations]])
    /\ UNCHANGED <<fallbackCache, Pure>>

\* translator.getTranslation rejects: the await throws inside the try block
GetTranslationThrows(c, i) ==
    /\ i \in 1..Len(calls[c].builds)
    /\ calls[c].builds[i].pc = "getTranslation"
    /\ Continue(c, [calls[c] EXCEPT !.builds[i] =
                       Caught([@ EXCEPT !.branch = "threw"], calls[c].namespaces[i])])
    /\ UNCHANGED <<fallbackCache, Pure>>

\* translator.translate resolves: the build returns the translated entry
TranslateResolves(c, i) ==
    /\ i \in 1..Len(calls[c].builds)
    /\ calls[c].builds[i].pc = "translate"
    /\ LET namespace == calls[c].namespaces[i]
           translations == calls[c].builds[i].table
           title == TitleKey(namespace)
       IN  Continue(c, [calls[c] EXCEPT !.builds[i] =
                           [@ EXCEPT !.pc = "fulfilled",
                                     !.table = NoTable,
                                     !.entry = TranslatedEntry(namespace,
                                                   JoinedTranslations(translations.values),
                                                   title,
                                                   translate(calls[c].language, title))]])
    /\ UNCHANGED <<fallbackCache, Pure>>

\* translator.translate rejects: the await throws inside the try block
TranslateThrows(c, i) ==
    /\ i \in 1..Len(calls[c].builds)
    /\ calls[c].builds[i].pc = "translate"
    /\ Continue(c, [calls[c] EXCEPT !.builds[i] =
                       Caught([@ EXCEPT !.branch = "threw"], calls[c].namespaces[i])])
    /\ UNCHANGED <<fallbackCache, Pure>>

\* readFile resolves: initFallback returns the entry, fallback stores it in
\* the fallback cache and returns it, and buildNamespace returns it
ReadFileResolves(c, i, template) ==
    /\ i \in 1..Len(calls[c].builds)
    /\ calls[c].builds[i].pc = "readFile"
    /\ LET namespace == calls[c].namespaces[i]
           params == initFallback(namespace, template)
       IN  /\ fallbackCache' = Store(fallbackCache, namespace, params)
           /\ Continue(c, [calls[c] EXCEPT !.builds[i] =
                              [@ EXCEPT !.pc = "fulfilled", !.entry = params]])
    /\ UNCHANGED Pure

\* What becomes of a build whose fallback(namespace) rejected: the call is
\* "return await fallback(namespace)" inside the try block, so the rejection
\* is thrown there and the catch block handles it.
FallbackRejected(build, namespace) == Caught(build, namespace)

\* readFile rejects: initFallback and fallback reject with it, nothing is
\* stored in the fallback cache
ReadFileRejects(c, i) ==
    /\ i \in 1..Len(calls[c].builds)
    /\ calls[c].builds[i].pc = "readFile"
    /\ Continue(c, [calls[c] EXCEPT !.builds[i] =
                       FallbackRejected(@, calls[c].namespaces[i])])
    /\ UNCHANGED <<fallbackCache, Pure>>

Next ==
    \E c \in CallIds :
        \/ \E language \in Languages : GetDictionary(c, language)
        \/ \E listing \in Listings : WalkResolves(c, listing)
        \/ WalkRejects(c)
        \/ \E i \in 1..2 :
              \/ \E translations \in Tables : GetTranslationResolves(c, i, translations)
              \/ GetTranslationThrows(c, i)
              \/ TranslateResolves(c, i)
              \/ TranslateThrows(c, i)
              \/ \E template \in Templates : ReadFileResolves(c, i, template)
              \/ ReadFileRejects(c, i)

Spec == Init /\ [][Next]_vars

\* The events that can settle something call c waits for: its directory walk,
\* and the lookup, the translation and the file read of each of its builds.
Settles(c) ==
    \/ WalkRejects(c)
    \/ \E listing \in Listings : WalkResolves(c, listing)
    \/ \E i \in 1..2 :
          \/ GetTranslationThrows(c, i)
          \/ TranslateThrows(c, i)
          \/ ReadFileRejects(c, i)
          \/ \E translations \in Tables : GetTranslationResolves(c, i, translations)
          \/ TranslateResolves(c, i)
          \/ \E template \in Templates : ReadFileResolves(c, i, template)

\* The module under the condition that every directory walk, lookup,
\* translation and file read that was started settles: the event loop then
\* runs the continuation that awaits it.
LiveSpec == Spec /\ \A c \in CallIds : WF_vars(Settles(c))

(***************************************************************************)
(* Direct calls of the exported pure functions                             *)
(***************************************************************************)
XAdmin == <<"/", "x", "/">> \o AdminSlash
UsersStr == <<"u", "s", "e", "r", "s">>
AdminManageUsers == AdminSlash \o <<"m", "a", "n", "a", "g", "e", "/">> \o UsersStr

\* the listing of the documented example
ExampleDirectories ==
    << XAdmin \o <<"m", "a", "n", "a", "g", "e", "/">> \o UsersStr \o DotTpl,
       XAdmin \o <<"m", "a", "n", "a", "g", "e", "/">> \o UsersStr \o JsSuffix,
       XAdmin \o <<"p", "a", "r", "t", "i", "a", "l", "s", "/", "f", "o", "o">> \o DotTpl,
       XAdmin \o ManageCategory \o DotTpl,
       XAdmin \o <<"g", "e", "n", "e", "r", "a", "l">> \o DotTpl >>

\* The paths a listing is drawn from: templates and scripts below an admin
\* views directory, with a page whose name holds "admin", a views directory
\* below a directory named admin, and a path with the separator of Windows.
PathPool ==
    { PageABTpl, PageABJs, TopLevelTpl,
      ViewsAdmin \o <<"a", "/">> \o PartialsStr \o <<"f">> \o DotTpl,
      ViewsAdmin \o ManageGroup \o DotTpl,
      ViewsAdmin \o ManageCategoryAnalytics \o DotTpl,
      ViewsAdmin \o <<"m", "/">> \o AdminStr \o <<"s">> \o DotTpl,
      <<"/">> \o AdminStr \o ViewsAdmin \o <<"c", "/", "d">> \o DotTpl,
      <<"C", ":", "\\", "v", "\\">> \o AdminStr \o <<"\\", "a", "\\", "b">> \o DotTpl }

InitFilter ==
    /\ cache = <<>>
    /\ fallbackCache = <<>>
    /\ calls = [c \in CallIds |-> IdleCall]
    /\ pathSep \in {"/", "\\"}
    /\ directories \in {<<>>, ExampleDirectories}
    /\ filtered = <<>>
    /\ text = <<>>
    /\ simplified = <<>>
    /\ args = <<>>
    /\ returned = <<>>

\* one more path in the listing that filterDirectories is going to get
ListDirectory(dir) ==
    /\ filtered = <<>>
    /\ Len(directories) < MaxDirs
    /\ directories' = Append(directories, dir)
    /\ UNCHANGED <<cache, fallbackCache, calls, pathSep, filtered, text, simplified, args, returned>>

CallFilterDirectories ==
    /\ filtered = <<>>
    /\ filtered' = <<filterDirectories(directories, pathSep)>>
    /\ UNCHANGED <<cache, fallbackCache, calls, pathSep, directories, text, simplified, args, returned>>

NextFilter ==
    \/ \E dir \in PathPool : ListDirectory(dir)
    \/ CallFilterDirectories

SpecFilter == InitFilter /\ [][NextFilter]_vars

Alphabet == {"a", "{", "}", " ", "\t", "\n", "\r"}

Texts == UNION {[1..n -> Alphabet] : n \in 0..MaxLen}

\* the text of the documented example
ExampleText ==
    <<"a", " ", "{", "{", "b", "}", "}", " ", "c", "\n", "\n", " ", " ", "d", " ", "\t", " ", "e">>

InitSimplify ==
    /\ cache = <<>>
    /\ fallbackCache = <<>>
    /\ calls = [c \in CallIds |-> IdleCall]
    /\ pathSep = "/"
    /\ directories = <<>>
    /\ filtered = <<>>
    /\ text \in Texts \cup {ExampleText}
    /\ simplified = <<>>
    /\ args = <<>>
    /\ returned = <<>>

CallSimplify ==
    /\ simplified = <<>>
    /\ simplified' = <<simplify(text)>>
    /\ UNCHANGED <<cache, fallbackCache, calls, pathSep, directories, filtered, text, args, returned>>

CallSimplifyAgain ==
    /\ Len(simplified) = 1
    /\ simplified' = Append(simplified, simplify(simplified[1]))
    /\ UNCHANGED <<cache, fallbackCache, calls, pathSep, directories, filtered, text, args, returned>>

NextSimplify == CallSimplify \/ CallSimplifyAgain

SpecSimplify == InitSimplify /\ [][NextSimplify]_vars

(***************************************************************************)
(* Direct builds of one entry: the try block of buildNamespace for a table *)
(* with entries, and initFallback for a template that was read             *)
(***************************************************************************)
ManageStr == <<"m", "a", "n", "a", "g", "e">>

\* the section and page tokens a namespace admin/<section>/<page> is made of
Sections == {DevelopmentStr, ManageStr, <<"a">>}
Pages == {UsersStr, <<"i", "n", "f", "o">>, <<"a", "d", "m", "i", "n", "s", "-", "m", "o", "d", "s">>, <<"b", "/", "c">>}

\* the values of a translation table with entries, in table order
TableValues ==
    { SomeTable.values,
      << <<"E">> >>,
      << <<"x", "<", "i", ">", "y", "<", "/", "i", ">">>, <<"[", "[", "a", ":", "b", "]", "]">>, <<" ", "z">> >> }

\* the text of a template file
TemplateTexts ==
    Templates \cup { <<"<", "p", ">", "A", " ", " ", "{", "{", "x", "}", "}", " ", "\n", "\n", " ", "[", "[", "k", ":", "v", "]", "]", "B", "<", "/", "p", ">">>, <<>> }

EntryNamespace(a) == AdminSlash \o a.section \o <<"/">> \o a.page

InitEntry ==
    /\ cache = <<>>
    /\ fallbackCache = <<>>
    /\ calls = [c \in CallIds |-> IdleCall]
    /\ pathSep = "/"
    /\ directories = <<>>
    /\ filtered = <<>>
    /\ text = <<>>
    /\ simplified = <<>>
    /\ args \in [language : Languages, section : Sections, page : Pages,
                 values : TableValues, template : TemplateTexts]
    /\ returned = <<>>

\* buildNamespace from the join of the table values to its return, the
\* translator having translated the title
BuildTranslated ==
    /\ \A k \in 1..Len(returned) : returned[k].by # "table"
    /\ LET namespace == EntryNamespace(args)
           title == TitleKey(namespace)
       IN  returned' = Append(returned,
               [by |-> "table",
                entry |-> TranslatedEntry(namespace, JoinedTranslations(args.values),
                                          title, translate(args.language, title))])
    /\ UNCHANGED <<cache, fallbackCache, calls, pathSep, directories, filtered, text,
                   simplified, args>>

\* initFallback from the template it read to its return
BuildFallback ==
    /\ \A k \in 1..Len(returned) : returned[k].by # "fallback"
    /\ returned' = Append(returned,
           [by |-> "fallback", entry |-> initFallback(EntryNamespace(args), args.template)])
    /\ UNCHANGED <<cache, fallbackCache, calls, pathSep, directories, filtered, text,
                   simplified, args>>

NextEntry == BuildTranslated \/ BuildFallback

SpecEntry == InitEntry /\ [][NextEntry]_vars

(***************************************************************************)
(* The properties                                                          *)
(***************************************************************************)
SlashCount(dir) == Cardinality({i \in 1..Len(dir) : dir[i] = "/"})

\* the path of a template as the dictionary names it: from the last "admin"
\* that stands before the ".tpl" suffix up to that suffix, separators as "/"
StatedPath(dir, sep) ==
    LET starts == {i \in 1..(Len(dir) - 8) : SubSeq(dir, i, i + 4) = AdminStr}
        from == CHOOSE i \in starts : \A j \in starts : j <= i
        cut == SubSeq(dir, from, Len(dir) - 4)
    IN  [i \in 1..Len(cut) |-> IF cut[i] = sep THEN "/" ELSE cut[i]]

StatedKeep(dir) ==
    /\ ~EndsWith(dir, JsSuffix)
    /\ ~Includes(dir, PartialsStr)
    /\ SlashCount(dir) >= 2
    /\ ~EndsWith(dir, ManageCategory)
    /\ ~EndsWith(dir, ManageGroup)
    /\ ~EndsWith(dir, ManageCategoryAnalytics)

\* the positions of the listing whose path is in the result
StatedKept(dirs, sep) ==
    {i \in 1..Len(dirs) : EndsWith(dirs[i], DotTpl) /\ StatedKeep(StatedPath(dirs[i], sep))}

ExampleSimplifiedStated ==
    <<"a", " ", " ", "c", "\n", "d", " ", "e">>

ExampleSimplified ==
    <<"a", " ", "c", "\n", "d", " ", "e">>

\* C7 as stated: simplify of the example text is "a  c\nd e", with the two
\* spaces around the removed mustache kept
C7_ExampleAsStated ==
    (text = ExampleText /\ simplified # <<>>) => simplified[1] = ExampleSimplifiedStated

\* C7 as amended: simplify of the example text is "a c\nd e": the two spaces
\* left around the removed mustache are one run and become one space
C7_Example ==
    (text = ExampleText /\ simplified # <<>>) => simplified[1] = ExampleSimplified

C7_Witness == text = ExampleText /\ simplified # <<>>

\* a mustache pattern somewhere in s
HasMustache(s) == \E i \in 1..Len(s) : MustacheEnd(SubSeq(s, i, Len(s))) > 0

\* C8: simplify is idempotent: when simplify(x) holds no mustache pattern,
\* simplify(simplify(x)) = simplify(x)
C8_SimplifyIdempotent ==
    (Len(simplified) = 2 /\ ~HasMustache(simplified[1])) => simplified[2] = simplified[1]

\* simplify was applied twice to a text with a mustache, a line break and a
\* blank that the first application changed
C8_Witness ==
    /\ Len(simplified) = 2
    /\ HasMustache(text)
    /\ \E i \in 1..Len(text) : IsLineBreak(text[i])
    /\ \E i \in 1..Len(text) : IsHorizontal(text[i])
    /\ simplified[1] # text
    /\ ~HasMustache(simplified[1])

BuildIds(c) == 1..Len(calls[c].builds)

\* the build read its template and the read failed
ReadFailed(c, i) ==
    /\ calls[c].builds[i].read
    /\ calls[c].builds[i].pc = "fulfilled"
    /\ calls[c].builds[i].entry = CaughtEntry(calls[c].namespaces[i])

FallbackEntries(namespace) == {initFallback(namespace, template) : template \in Templates}

\* C1: a getDictionary(L) call made after a getDictionary(L) call has resolved
\* returns the array that is in the cache, which is the array an earlier call
\* returned, and starts no directory walk and no build (no getTranslation, no
\* translate, no readFile); the caches are left as they are.
C1_LaterCallReturnsCached ==
    [][\A c \in CallIds :
        (/\ calls[c].pc = "idle"
         /\ calls'[c].pc # "idle"
         /\ \E d \in CallIds : /\ calls[d].pc = "fulfilled"
                               /\ calls[d].language = calls'[c].language)
        => /\ calls'[c].pc = "fulfilled"
           /\ calls'[c].result = cache[calls'[c].language]
           /\ \E d \in CallIds : /\ calls[d].pc = "fulfilled"
                                 /\ calls[d].language = calls'[c].language
                                 /\ calls[d].result = calls'[c].result
           /\ ~calls'[c].walked
           /\ calls'[c].builds = <<>>
           /\ cache' = cache
           /\ fallbackCache' = fallbackCache]_vars

\* a call that walked and built was followed by a call of the same language
\* that returned the same non-empty array without a walk
C1_Witness ==
    \E c, d \in CallIds :
        /\ d < c
        /\ calls[d].pc = "fulfilled" /\ calls[d].walked /\ calls[d].builds # <<>>
        /\ calls[c].pc = "fulfilled" /\ ~calls[c].walked /\ calls[c].builds = <<>>
        /\ calls[c].language = calls[d].language
        /\ calls[c].result = calls[d].result

\* C2 as stated: a call one of whose builds had its template read fail does
\* not resolve, and stores nothing in the dictionary cache
C2_ReadFailureRejectsCall ==
    \A c \in CallIds :
        (\E i \in BuildIds(c) : ReadFailed(c, i)) => calls[c].pc # "fulfilled"

\* what a build returns by the branch it took, whatever the other builds of
\* the call did
OwnEntry(c, i) ==
    LET build == calls[c].builds[i]
        namespace == calls[c].namespaces[i]
        title == TitleKey(namespace)
    IN  CASE build.branch = "threw" -> build.entry = CaughtEntry(namespace)
          [] build.branch = "table" ->
                \E translations \in Tables :
                    /\ ~IsEmptyTable(translations)
                    /\ build.entry = TranslatedEntry(namespace,
                                         JoinedTranslations(translations.values), title,
                                         translate(calls[c].language, title))
          [] build.branch = "fallback" ->
                \/ build.entry \in FallbackEntries(namespace)
                \/ ReadFailed(c, i)
          [] OTHER -> FALSE

\* C3: a build whose getTranslation or translate threw resolves with the entry
\* of its namespace without translations and without title; the call is not
\* rejected and resolves once all its builds have, with that entry at the place
\* of the namespace and, at every other place, the entry the build of that
\* place returned by its own branch.
C3_ThrownLookupDegrades ==
    \A c \in CallIds : \A i \in BuildIds(c) :
        calls[c].builds[i].branch = "threw" =>
            /\ calls[c].builds[i].pc = "fulfilled"
            /\ calls[c].builds[i].entry = [namespace |-> calls[c].namespaces[i], translations |-> <<>>]
            /\ "title" \notin DOMAIN calls[c].builds[i].entry
            /\ calls[c].pc \in {"all", "fulfilled"}
            /\ (\A j \in BuildIds(c) : calls[c].builds[j].pc = "fulfilled") =>
                  /\ calls[c].pc = "fulfilled"
                  /\ Len(calls[c].result) = Len(calls[c].namespaces)
                  /\ calls[c].result[i] = calls[c].builds[i].entry
                  /\ \A j \in BuildIds(c) \ {i} :
                        /\ calls[c].result[j] = calls[c].builds[j].entry
                        /\ OwnEntry(c, j)

\* a call resolved with two entries: one of a build that threw, the other a
\* translated or a fallback entry
C3_Witness ==
    \E c \in CallIds : \E i, j \in BuildIds(c) :
        /\ calls[c].pc = "fulfilled"
        /\ calls[c].builds[i].branch = "threw"
        /\ calls[c].builds[j].branch # "threw"
        /\ calls[c].result[j] # CaughtEntry(calls[c].namespaces[j])

\* C4 as stated: the entry a resolved call returns for a namespace whose
\* translation table was absent or empty is the fallback entry of the
\* namespace
C4_EmptyTableGivesFallbackEntry ==
    \A c \in CallIds : \A i \in BuildIds(c) :
        (calls[c].pc = "fulfilled" /\ calls[c].builds[i].branch = "fallback")
        => calls[c].result[i] \in FallbackEntries(calls[c].namespaces[i])

\* the builds that called readFile for a namespace
Reads(namespace) ==
    {b \in CallIds \X (1..MaxBuilds) :
        /\ b[2] \in BuildIds(b[1])
        /\ calls[b[1]].namespaces[b[2]] = namespace
        /\ calls[b[1]].builds[b[2]].read}

AllNamespaces == UNION {{calls[c].namespaces[i] : i \in BuildIds(c)} : c \in CallIds}

\* C5 as stated: the template of a namespace is read by one fallback only
C5_TemplateReadOnce ==
    \A namespace \in AllNamespaces : Cardinality(Reads(namespace)) <= 1

\* C5 as amended: a fallback that finds its namespace in the fallback cache
\* returns the cached entry and reads no file; a fallback that does not find
\* it reads the template, once, and when the read succeeds the entry is stored
\* in the fallback cache and returned. (Fallbacks that overlap, or that follow
\* a failed read, each read the template again.)
C5_FallbackReadsOnMiss ==
    [][\A c \in CallIds : \A i \in BuildIds(c) :
        LET before == calls[c].builds[i]
            after == calls'[c].builds[i]
            namespace == calls[c].namespaces[i]
        IN  /\ (before.pc = "getTranslation" /\ after.branch = "fallback") =>
                  IF namespace \in DOMAIN fallbackCache
                  THEN /\ after.pc = "fulfilled"
                       /\ after.entry = fallbackCache[namespace]
                       /\ ~after.read
                       /\ fallbackCache' = fallbackCache
                  ELSE after.pc = "readFile" /\ after.read
            /\ (after.read /\ ~before.read) => before.pc = "getTranslation"
            /\ before.read => after.read
            /\ (before.pc = "readFile" /\ after.pc # "readFile") =>
                  \/ /\ after.entry \in FallbackEntries(namespace)
                     /\ namespace \in DOMAIN fallbackCache'
                     /\ fallbackCache'[namespace] = after.entry
                  \/ /\ after.entry = CaughtEntry(namespace)
                     /\ fallbackCache' = fallbackCache]_vars

\* one fallback read the template of a namespace and a later fallback for the
\* namespace, in another call, returned the cached entry without a read
C5_Witness ==
    \E c, d \in CallIds : \E i \in BuildIds(c), j \in BuildIds(d) :
        /\ c # d
        /\ calls[c].namespaces[i] = calls[d].namespaces[j]
        /\ calls[c].builds[i].branch = "fallback" /\ calls[c].builds[i].read
        /\ calls[d].builds[j].branch = "fallback" /\ ~calls[d].builds[j].read
        /\ calls[d].builds[j].pc = "fulfilled"
        /\ calls[d].builds[j].entry = calls[c].builds[i].entry

\* C9 as stated: a key of either cache stays and keeps its entry
C9_EntriesNeverReplaced ==
    [][/\ \A language \in DOMAIN cache :
             language \in DOMAIN cache' /\ cache'[language] = cache[language]
       /\ \A namespace \in DOMAIN fallbackCache :
             /\ namespace \in DOMAIN fallbackCache'
             /\ fallbackCache'[namespace] = fallbackCache[namespace]]_vars

\* C9 as amended: a key of either cache is never removed; the value under it
\* is replaced only by a getDictionary call (a fallback) that had passed the
\* cache check before and now completes, with the array (the entry) it
\* returns.
C9_KeysStayValuesFromMisses ==
    [][/\ \A language \in DOMAIN cache :
             /\ language \in DOMAIN cache'
             /\ cache'[language] # cache[language] =>
                   \E c \in CallIds :
                       /\ calls[c].pc \in {"walk", "all"}
                       /\ calls[c].language = language
                       /\ calls'[c].pc = "fulfilled"
                       /\ calls'[c].result = cache'[language]
       /\ \A namespace \in DOMAIN fallbackCache :
             /\ namespace \in DOMAIN fallbackCache'
             /\ fallbackCache'[namespace] # fallbackCache[namespace] =>
                   \E c \in CallIds : \E i \in BuildIds(c) :
                       /\ calls[c].namespaces[i] = namespace
                       /\ calls[c].builds[i].pc = "readFile"
                       /\ calls'[c].builds[i].pc = "fulfilled"
                       /\ calls'[c].builds[i].entry = fallbackCache'[namespace]]_vars

\* the fallback cache holds two keys, and a call that had missed the cache has
\* returned an array other than the one now cached for its language
C9_Witness ==
    /\ Cardinality(DOMAIN fallbackCache) = 2
    /\ \E c \in CallIds :
          /\ calls[c].pc = "fulfilled" /\ calls[c].walked
          /\ calls[c].result # cache[calls[c].language]

\* C10: a getDictionary(L) call that finds no array cached for L walks the
\* directory itself, also while another call for L is under way, and starts one
\* build of its own per namespace it found; it resolves with the array of what
\* its own builds returned; and when it resolves that array is the one cached
\* for L, whatever an earlier call had stored.
C10_RacingCallsNotDeduplicated ==
    /\ [][\A c \in CallIds :
            /\ (/\ calls[c].pc = "idle" /\ calls'[c].pc # "idle"
                /\ calls'[c].language \notin DOMAIN cache)
               => calls'[c].pc = "walk" /\ calls'[c].walked
            /\ (calls[c].pc = "walk" /\ calls'[c].pc \in {"all", "fulfilled"})
               => /\ Len(calls'[c].builds) = Len(calls'[c].namespaces)
                  /\ \A i \in 1..Len(calls'[c].builds) :
                        calls'[c].builds[i].pc = "getTranslation"
            /\ (calls[c].pc \in {"walk", "all"} /\ calls'[c].pc = "fulfilled")
               => /\ calls'[c].language \in DOMAIN cache'
                  /\ cache'[calls'[c].language] = calls'[c].result]_vars
    /\ [](\A c \in CallIds :
            (calls[c].pc = "fulfilled" /\ calls[c].walked)
            => /\ Len(calls[c].result) = Len(calls[c].namespaces)
               /\ \A i \in BuildIds(c) :
                     /\ calls[c].builds[i].pc = "fulfilled"
                     /\ calls[c].result[i] = calls[c].builds[i].entry)

\* two calls of one language both walked and built, they resolved with
\* different arrays, and the cache holds the array of the second
C10_Witness ==
    \E c, d \in CallIds :
        /\ c < d
        /\ calls[c].language = calls[d].language
        /\ calls[c].pc = "fulfilled" /\ calls[c].walked /\ calls[c].builds # <<>>
        /\ calls[d].pc = "fulfilled" /\ calls[d].walked /\ calls[d].builds # <<>>
        /\ calls[c].result # calls[d].result
        /\ cache[calls[c].language] = calls[d].result

\* C11: every array in the dictionary cache is the whole result of one run of
\* initDict for its language: one entry per namespace the run discovered, at
\* the place of the namespace, each the entry the run's own build of that
\* namespace returned; and every entry in the fallback cache is the whole entry
\* one initFallback run returned for the namespace it is stored under.
C11_CacheValuesComplete ==
    /\ \A language \in DOMAIN cache :
          \E c \in CallIds :
              /\ calls[c].language = language
              /\ calls[c].walked
              /\ calls[c].pc = "fulfilled"
              /\ Len(cache[language]) = Len(calls[c].namespaces)
              /\ \A i \in BuildIds(c) :
                    /\ calls[c].builds[i].pc = "fulfilled"
                    /\ cache[language][i] = calls[c].builds[i].entry
                    /\ "namespace" \in DOMAIN cache[language][i]
                    /\ cache[language][i].namespace = calls[c].namespaces[i]
    /\ \A namespace \in DOMAIN fallbackCache :
          /\ fallbackCache[namespace] \in FallbackEntries(namespace)
          /\ fallbackCache[namespace].namespace = namespace
          /\ \E c \in CallIds : \E i \in BuildIds(c) :
                /\ calls[c].namespaces[i] = namespace
                /\ calls[c].builds[i].read
                /\ calls[c].builds[i].pc = "fulfilled"
                /\ calls[c].builds[i].entry = fallbackCache[namespace]

\* two calls of one language ran at the same time and both resolved; the cache
\* holds the two-entry array of one of them, and the fallback cache an entry
C11_Witness ==
    \E c, d \in CallIds :
        /\ c # d
        /\ calls[c].language = calls[d].language
        /\ calls[c].pc = "fulfilled" /\ calls[c].walked
        /\ calls[d].pc = "fulfilled" /\ calls[d].walked
        /\ Len(calls[c].result) = 2
        /\ cache[calls[c].language] = calls[c].result
        /\ DOMAIN fallbackCache # {}

\* C12: the step at which getTranslation or translate throws for a build ends
\* the build: it resolves with the entry without translations, it has read no
\* template and the fallback cache is as it was; the build takes no further
\* step (no retry). A build enters the fallback only when its getTranslation
\* resolves, and a build that went on to translate, its table having entries,
\* never reads a template.
C12_ThrownLookupNoFallback ==
    /\ [][\A c \in CallIds : \A i \in BuildIds(c) :
            LET before == calls[c].builds[i]
                after == calls'[c].builds[i]
                namespace == calls[c].namespaces[i]
            IN  /\ (before.branch # "threw" /\ after.branch = "threw") =>
                      /\ before.pc \in {"getTranslation", "translate"}
                      /\ after.pc = "fulfilled"
                      /\ after.entry = CaughtEntry(namespace)
                      /\ ~after.read
                      /\ fallbackCache' = fallbackCache
                /\ before.branch = "threw" => after = before
                /\ (before.branch # "fallback" /\ after.branch = "fallback") =>
                      before.pc = "getTranslation" /\ before.branch = "lookup"
                /\ before.pc = "translate" =>
                      /\ ~IsEmptyTable(before.table)
                      /\ after.pc \in {"translate", "fulfilled"}
                      /\ ~after.read]_vars
    /\ [](\A c \in CallIds : \A i \in BuildIds(c) :
            calls[c].builds[i].branch = "threw" =>
                ~calls[c].builds[i].read /\ calls[c].builds[i].pc = "fulfilled")

\* in one call a build threw and left the fallback cache without a key for its
\* namespace, while another build, its table empty, read its template and
\* stored the entry
C12_Witness ==
    \E c \in CallIds : \E i, j \in BuildIds(c) :
        /\ calls[c].pc = "fulfilled"
        /\ calls[c].builds[i].branch = "threw"
        /\ calls[c].result[i] = CaughtEntry(calls[c].namespaces[i])
        /\ calls[c].namespaces[i] \notin DOMAIN fallbackCache
        /\ calls[c].builds[j].branch = "fallback"
        /\ calls[c].builds[j].read
        /\ calls[c].namespaces[j] \in DOMAIN fallbackCache

\* C13: the array a getDictionary call returns, and every array in the
\* dictionary cache, is in the order of discovery: it is as long as the list
\* the namespace filter returned for a listing of the directory, and its i-th
\* entry has the i-th namespace of that list, in whatever order the builds
\* settled and whichever branch each took.
C13_DiscoveryOrder ==
    /\ \A c \in CallIds :
          (calls[c].pc = "fulfilled" /\ calls[c].walked) =>
              /\ \E listing \in Listings :
                    calls[c].namespaces = filterDirectories(listing, pathSep)
              /\ Len(calls[c].result) = Len(calls[c].namespaces)
              /\ \A i \in 1..Len(calls[c].result) :
                    /\ "namespace" \in DOMAIN calls[c].result[i]
                    /\ calls[c].result[i].namespace = calls[c].namespaces[i]
    /\ \A language \in DOMAIN cache :
          \E listing \in Listings :
              LET namespaces == filterDirectories(listing, pathSep)
              IN  /\ Len(cache[language]) = Len(namespaces)
                  /\ \A i \in 1..Len(namespaces) :
                        /\ "namespace" \in DOMAIN cache[language][i]
                        /\ cache[language][i].namespace = namespaces[i]

\* a call resolved with two entries whose second build settled before the
\* first, the two by different branches, and its array is the cached one
C13_Witness ==
    \E c \in CallIds :
        /\ calls[c].pc = "fulfilled"
        /\ calls[c].settled = <<2, 1>>
        /\ calls[c].builds[1].branch # calls[c].builds[2].branch
        /\ calls[c].result[1].namespace = calls[c].namespaces[1]
        /\ cache[calls[c].language] = calls[c].result

\* the title key as stated: the section reference, "development" named
\* "advanced" in it, then " > " and the reference of the page under its section
StatedTitleKey(section, page) ==
    MenuSectionOpen \o (IF section = DevelopmentStr THEN AdvancedStr ELSE section)
    \o PatternClose \o <<" ", ">", " ">>
    \o MenuOpen \o section \o <<"/">> \o page \o PatternClose

\* C14: for a namespace admin/<section>/<page> and a table with entries, the
\* entry has the namespace, translations that are the sanitized join by line
\* feeds of the table values in table order, a line feed and the title key,
\* and as title the translator's translation of that key; the key is
\* [[admin/menu:section-<section>]] with "development" remapped to "advanced",
\* then " > " and [[admin/menu:<section>/<page>]] with the section as found.
C14_TranslatedEntry ==
    \A k \in 1..Len(returned) :
        returned[k].by = "table" =>
            LET key == StatedTitleKey(args.section, args.page)
            IN  /\ returned[k].entry.namespace = AdminSlash \o args.section \o <<"/">> \o args.page
                /\ returned[k].entry.translations =
                       sanitize(Join(args.values, NewLine)) \o NewLine \o key
                /\ returned[k].entry.title = translate(args.language, key)

\* an entry was built for a page of the development section from a table of
\* several values, one of them with a tag
C14_Witness ==
    \E k \in 1..Len(returned) :
        /\ returned[k].by = "table"
        /\ args.section = DevelopmentStr
        /\ Len(args.values) > 1
        /\ \E v \in 1..Len(args.values) : Includes(args.values[v], <<"<">>)
        /\ Includes(returned[k].entry.translations, AdvancedStr)

\* the segments of admin/<section>/<page> without the "admin/" prefix, each
\* with its first letter in upper case, joined by " > "
StatedSegments(section, page) ==
    LET segments == <<section>> \o Split(page, "/")
    IN  Join([i \in 1..Len(segments) |->
                 <<ToUpperCase(segments[i][1])>> \o SubSeq(segments[i], 2, Len(segments[i]))],
             <<" ", ">", " ">>)

\* the title as stated: the characters that are no letter, ">" or space removed
StatedTitleStripped(section, page) ==
    LET joined == StatedSegments(section, page)
        keep == {i \in 1..Len(joined) : IsLetter(joined[i]) \/ joined[i] \in {">", " "}}
    IN  [k \in 1..Cardinality(keep) |->
            joined[CHOOSE i \in keep : Cardinality({j \in keep : j <= i}) = k]]

\* the title as amended: each such character replaced by a space
StatedTitleBlanked(section, page) ==
    LET joined == StatedSegments(section, page)
    IN  [i \in 1..Len(joined) |->
            IF IsLetter(joined[i]) \/ joined[i] \in {">", " "} THEN joined[i] ELSE " "]

\* C15 as stated: the fallback title has every character that is no letter,
\* ">" or space removed ("Manage > Adminsmods" for admin/manage/admins-mods)
C15_TitleStripsAsStated ==
    \A k \in 1..Len(returned) :
        returned[k].by = "fallback" =>
            /\ returned[k].entry.title = StatedTitleStripped(args.section, args.page)
            /\ returned[k].entry.translations =
                   simplify(removePatterns(sanitize(args.template))) \o NewLine
                   \o StatedTitleStripped(args.section, args.page)

\* C15 as amended: the fallback title of a namespace is the namespace without
\* its "admin/" prefix, split on "/", each segment with its first letter in
\* upper case, joined by " > ", with every character that is no letter, ">" or
\* space replaced by a space ("Manage > Admins mods"); the translations of the
\* fallback entry are the sanitized, pattern-stripped, simplified template
\* text, a line feed and that title.
C15_FallbackTitleBlanks ==
    \A k \in 1..Len(returned) :
        returned[k].by = "fallback" =>
            /\ returned[k].entry.namespace = AdminSlash \o args.section \o <<"/">> \o args.page
            /\ returned[k].entry.title = StatedTitleBlanked(args.section, args.page)
            /\ Len(returned[k].entry.title) = Len(StatedSegments(args.section, args.page))
            /\ returned[k].entry.translations =
                   simplify(removePatterns(sanitize(args.template))) \o NewLine
                   \o StatedTitleBlanked(args.section, args.page)

\* a fallback entry was built for a page with a hyphen in its name, from a
\* template with a tag, a mustache and a pattern
C15_Witness ==
    \E k \in 1..Len(returned) :
        /\ returned[k].by = "fallback"
        /\ Includes(args.page, <<"-">>)
        /\ Includes(args.template, <<"<">>)
        /\ Includes(args.template, <<"{">>)
        /\ Includes(args.template, <<"[", "[">>)
        /\ ~Includes(returned[k].entry.title, <<"-">>)
        /\ ~Includes(returned[k].entry.translations, <<"<">>)

\* C16: when its walk resolves a call has started the builds of all its
\* namespaces, each up to its lookup, before it waits for any; while it waits
\* some build of it is not settled and none has rejected, and it stops waiting
\* only in a step that settles a build of it (nothing cancels it, no time
\* limit ends it); a resolved call has all its builds fulfilled; and, the
\* walks, lookups, translations and reads all settling, every call that was
\* made settles.
C16_CallsSettle ==
    /\ [][\A c \in CallIds :
            /\ (calls[c].pc = "walk" /\ calls'[c].pc \in {"all", "fulfilled"}) =>
                  /\ Len(calls'[c].builds) = Len(calls'[c].namespaces)
                  /\ \A i \in 1..Len(calls'[c].builds) : calls'[c].builds[i] = StartBuild
            /\ (calls[c].pc = "all" /\ calls'[c].pc # "all") =>
                  \E i \in BuildIds(c) :
                      ~Settled(calls[c].builds[i]) /\ Settled(calls'[c].builds[i])]_vars
    /\ [](\A c \in CallIds :
            /\ calls[c].pc = "all" =>
                  /\ \E i \in BuildIds(c) : ~Settled(calls[c].builds[i])
                  /\ \A i \in BuildIds(c) : calls[c].builds[i].pc # "rejected"
            /\ (calls[c].pc = "fulfilled" /\ calls[c].walked) =>
                  \A i \in BuildIds(c) : calls[c].builds[i].pc = "fulfilled")
    /\ \A c \in CallIds :
          (calls[c].pc \in {"walk", "all"}) ~> (calls[c].pc \in {"fulfilled", "rejected"})

\* a call with two builds has resolved after both had settled, and another
\* call has rejected
C16_Witness ==
    \E c, d \in CallIds :
        /\ calls[c].pc = "fulfilled"
        /\ Len(calls[c].settled) = 2
        /\ calls[d].pc = "rejected"

\* C17: the step at which the directory walk of a call fails rejects the call
\* and leaves both caches as they were; the call has started no build and
\* does nothing more; a language is in the dictionary cache only when a call
\* for it has resolved; and a call made for a language that is not cached,
\* after a call for that language has rejected, walks the directory anew.
C17_WalkFailureNotCached ==
    /\ [][\A c \in CallIds :
            /\ (calls[c].pc = "walk" /\ calls'[c].pc = "rejected") =>
                  /\ cache' = cache
                  /\ fallbackCache' = fallbackCache
                  /\ calls'[c].builds = <<>>
            /\ calls[c].pc = "rejected" => calls'[c] = calls[c]
            /\ (/\ calls[c].pc = "idle" /\ calls'[c].pc # "idle"
                /\ calls'[c].language \notin DOMAIN cache
                /\ \E d \in CallIds : /\ calls[d].pc = "rejected"
                                      /\ calls[d].language = calls'[c].language)
               => calls'[c].pc = "walk" /\ calls'[c].walked]_vars
    /\ [](/\ \A c \in CallIds :
                calls[c].pc = "rejected" =>
                    calls[c].builds = <<>> /\ calls[c].result = <<>>
          /\ \A language \in DOMAIN cache :
                \E c \in CallIds :
                    calls[c].language = language /\ calls[c].pc = "fulfilled")

\* the walk of a call failed; the language stayed out of the cache, and a later
\* call for it walked again, built, resolved and was cached
C17_Witness ==
    \E c, d \in CallIds :
        /\ c < d
        /\ calls[c].pc = "rejected"
        /\ calls[d].language = calls[c].language
        /\ calls[d].pc = "fulfilled" /\ calls[d].walked /\ calls[d].builds # <<>>
        /\ cache[calls[d].language] = calls[d].result
        /\ \A e \in CallIds : e \notin {c, d} => calls[e].language # calls[c].language

\* C18: the fallback cache is keyed by the namespace alone. A build, of a call
\* for whatever language, whose table is absent or empty while an entry is
\* cached for its namespace returns that entry, and the call puts it in its
\* dictionary; the entry is the one a reading fallback, of whatever language,
\* built from the template, with the title nsToTitle gives, which no
\* translator has seen. A call that resolves writes the dictionary cache under
\* its own language and leaves the key set and the array of every other
\* language as they were.
C18_FallbackSharedAcrossLanguages ==
    /\ [][\A c \in CallIds :
            /\ \A i \in BuildIds(c) :
                  LET before == calls[c].builds[i]
                      after == calls'[c].builds[i]
                      namespace == calls[c].namespaces[i]
                  IN  (/\ before.pc = "getTranslation"
                       /\ after.branch = "fallback"
                       /\ namespace \in DOMAIN fallbackCache)
                      => /\ after.pc = "fulfilled"
                         /\ after.entry = fallbackCache[namespace]
                         /\ calls'[c].pc = "fulfilled" => calls'[c].result[i] = after.entry
            /\ (calls[c].pc \in {"walk", "all"} /\ calls'[c].pc = "fulfilled") =>
                  /\ DOMAIN cache' = DOMAIN cache \cup {calls'[c].language}
                  /\ \A language \in DOMAIN cache \ {calls'[c].language} :
                        cache'[language] = cache[language]
            /\ (\A d \in CallIds : calls'[d].pc = "fulfilled" => calls[d].pc = "fulfilled")
               => cache' = cache]_vars
    /\ [](\A c \in CallIds : \A i \in BuildIds(c) :
            (/\ calls[c].builds[i].pc = "fulfilled"
             /\ calls[c].builds[i].branch = "fallback"
             /\ ~calls[c].builds[i].read)
            => /\ calls[c].builds[i].entry \in FallbackEntries(calls[c].namespaces[i])
               /\ calls[c].builds[i].entry.title = nsToTitle(calls[c].namespaces[i])
               /\ \E d \in CallIds : \E j \in BuildIds(d) :
                     /\ calls[d].namespaces[j] = calls[c].namespaces[i]
                     /\ calls[d].builds[j].read
                     /\ calls[d].builds[j].entry = calls[c].builds[i].entry)

\* calls for two languages have resolved; the first read the template of a
\* namespace, the second got the cached entry without a read, and the arrays
\* cached for the two languages hold the same entry for the namespace
C18_Witness ==
    \E c, d \in CallIds : \E i \in BuildIds(c), j \in BuildIds(d) :
        /\ calls[c].language # calls[d].language
        /\ calls[c].pc = "fulfilled" /\ calls[d].pc = "fulfilled"
        /\ calls[c].namespaces[i] = calls[d].namespaces[j]
        /\ calls[c].builds[i].read
        /\ calls[d].builds[j].branch = "fallback" /\ ~calls[d].builds[j].read
        /\ cache[calls[c].language][i] = cache[calls[d].language][j]
        /\ cache[calls[d].language][j] = fallbackCache[calls[c].namespaces[i]]

====
